---- MODULE Spec2Model ----
(***************************************************************************)
(* The request-to-response mapping of the hubs/messages and adopters/dogs  *)
(* REST APIs: three Express applications (two versions of the hubs app,    *)
(* one adopters app), their routers and handlers, and the data-access      *)
(* module each handler calls.                                              *)
(***************************************************************************)
EXTENDS Integers, Sequences, FiniteSets, TLC

VARIABLES
    app,        \* which application this process runs: "hubs", "hubs2", "adopters"
    db,         \* the database behind the data-access module
    inflight,   \* per connection: the request, its handler, its pending call, its response
    served,     \* number of requests accepted so far
    nuked       \* history: the ids a DELETE answered 200 for since the last create

vars == <<app, db, inflight, served, nuked>>

(***************************************************************************)
(* Bounds of the model.                                                    *)
(***************************************************************************)
MaxId == 2          \* rows each table can ever hold (autoincrement ids 1..MaxId)
MaxRequests == 3    \* requests accepted in one behaviour

(***************************************************************************)
(* JavaScript values: every value carries its type tag t, so that          *)
(* truthiness, .length and === are computed as the runtime computes them.  *)
(***************************************************************************)
Undefined == [t |-> "undefined", v |-> 0]
Null == [t |-> "null", v |-> 0]
Str(s) == [t |-> "string", v |-> s]
Num(n) == [t |-> "number", v |-> n]
Obj(r) == [t |-> "object", v |-> r]
Arr(q) == [t |-> "array", v |-> q]
Err(e) == [t |-> "error", v |-> e]
Bool(b) == [t |-> "boolean", v |-> b]

EmptyObject == Obj([f \in {} |-> Undefined])

\* if (x): undefined, null, 0, "" and false are falsy; objects and arrays are truthy
Truthy(x) ==
    CASE x.t = "undefined" -> FALSE
      [] x.t = "null" -> FALSE
      [] x.t = "number" -> x.v # 0
      [] x.t = "string" -> x.v # ""
      [] x.t = "boolean" -> x.v
      [] OTHER -> TRUE

\* x.length of an array; reading .length of undefined or null throws a TypeError
HasLength(x) == x.t \in {"array", "string"}
Length(x) == IF x.t = "array" THEN Len(x.v) ELSE 0

\* count > 0 on a number; undefined > 0 and null > 0 are false
GreaterThanZero(x) == x.t = "number" /\ x.v > 0

\* the own properties x contributes to an object spread: those of an
\* object, none for undefined or null
Props(x) == IF x.t = "object" THEN x.v ELSE EmptyObject.v

\* { ...a, ...b }: every property of a, then every property of b over it
Spread(a, b) ==
    [f \in DOMAIN a \cup DOMAIN b |-> IF f \in DOMAIN b THEN b[f] ELSE a[f]]

(***************************************************************************)
(* Path parameters are strings; the tables hold integer ids.               *)
(***************************************************************************)
Digits == <<"1", "2", "3", "4", "5", "6">>
IdStrings == {Digits[i] : i \in 1..(MaxId + 1)}
IsNumeric(s) == \E i \in 1..Len(Digits) : Digits[i] = s
ParseId(s) == CHOOSE i \in 1..Len(Digits) : Digits[i] = s

\* the id a data-access method compares with the id column: a numeric string
\* or a number selects that row, anything else selects no row (0)
IdOf(x) ==
    CASE x.t = "number" -> x.v
      [] x.t = "string" /\ IsNumeric(x.v) -> ParseId(x.v)
      [] OTHER -> 0

(***************************************************************************)
(* The database and the data-access module (hubs-model.js and              *)
(* adopters-model.js): a parent table and a child table, ids handed out    *)
(* by autoincrement and never reused.  Every method returns a promise      *)
(* that resolves with a value or rejects with an error; an outcome is      *)
(* [db, ok, value]: the database after the call, resolved or rejected,     *)
(* and the resolution value or the rejection error.                        *)
(***************************************************************************)
Names == {"a", "b"}
Texts == {"hi"}

\* the rows the database holds when the server starts
SeededDb ==
    [parents |-> {[id |-> 1, name |-> "a"]},
     children |-> {[id |-> 1, hub_id |-> 1, text |-> "hi"]},
     nextParent |-> 2, nextChild |-> 2]

ParentJs(r) == Obj([id |-> Num(r.id), name |-> Str(r.name)])
ChildJs(r) == Obj([id |-> Num(r.id), hub_id |-> Num(r.hub_id), text |-> Str(r.text)])

\* the rows of a table in id order
RECURSIVE RowsById(_)
RowsById(rows) ==
    IF rows = {} THEN <<>>
    ELSE LET first == CHOOSE r \in rows : \A q \in rows : r.id <= q.id
         IN <<first>> \o RowsById(rows \ {first})

ParentList(rows) == LET q == RowsById(rows) IN Arr([i \in 1..Len(q) |-> ParentJs(q[i])])
ChildList(rows) == LET q == RowsById(rows) IN Arr([i \in 1..Len(q) |-> ChildJs(q[i])])

DbError == Err("SQLITE_ERROR")
Resolved(d, x) == [db |-> d, ok |-> TRUE, value |-> x]
Rejected(d) == [db |-> d, ok |-> FALSE, value |-> DbError]

\* a string property p of the object o
HasString(o, p) == o.t = "object" /\ p \in DOMAIN o.v /\ o.v[p].t = "string"

\* find(query): the parents whose columns equal the query's parameters
find(d, query) ==
    {Resolved(d, ParentList({r \in d.parents :
        HasString(query, "name") => r.name = query.v.name.v}))}
    \cup {Rejected(d)}

\* findById(id): the parent with that id, or undefined
findById(d, id) ==
    {Resolved(d, IF \E r \in d.parents : r.id = IdOf(id)
                 THEN ParentJs(CHOOSE r \in d.parents : r.id = IdOf(id))
                 ELSE Undefined)}
    \cup {Rejected(d)}

\* add(payload): inserts the parent and resolves with the stored row; a
\* payload without the name column violates the table's constraint
add(d, payload) ==
    (IF HasString(payload, "name") /\ payload.v.name.v \in Names /\ d.nextParent <= MaxId
     THEN LET row == [id |-> d.nextParent, name |-> payload.v.name.v]
          IN {Resolved([d EXCEPT !.parents = @ \cup {row}, !.nextParent = @ + 1],
                       ParentJs(row))}
     ELSE {})
    \cup {Rejected(d)}

\* remove(id): deletes the parent with that id and resolves with the number
\* of rows deleted
remove(d, id) ==
    (LET hit == {r \in d.parents : r.id = IdOf(id)}
     IN {Resolved([d EXCEPT !.parents = @ \ hit], Num(Cardinality(hit)))})
    \cup {Rejected(d)}

\* update(id, changes): writes the changed columns of the parent with that
\* id and resolves with the updated row, or with null when no row has the id
update(d, id, changes) ==
    (IF HasString(changes, "name") /\ changes.v.name.v \in Names
     THEN IF \E r \in d.parents : r.id = IdOf(id)
          THEN LET row == [id |-> IdOf(id), name |-> changes.v.name.v]
               IN {Resolved([d EXCEPT !.parents =
                                {r \in @ : r.id # IdOf(id)} \cup {row}],
                            ParentJs(row))}
          ELSE {Resolved(d, Null)}
     ELSE {})
    \cup {Rejected(d)}

\* findHubMessages(hubId): the messages of a hub
findHubMessages(d, hubId) ==
    {Resolved(d, ChildList({c \in d.children : c.hub_id = IdOf(hubId)}))}
    \cup {Rejected(d)}

\* findDogs(adopterId): the dogs of an adopter
findDogs(d, adopterId) ==
    {Resolved(d, ChildList({c \in d.children : c.hub_id = IdOf(adopterId)}))}
    \cup {Rejected(d)}

\* findMessageById(id): the child with that id, or undefined
findMessageById(d, id) ==
    {Resolved(d, IF \E c \in d.children : c.id = IdOf(id)
                 THEN ChildJs(CHOOSE c \in d.children : c.id = IdOf(id))
                 ELSE Undefined)}
    \cup {Rejected(d)}

\* addMessage(message): inserts the child under message.hub_id and resolves
\* with the stored row
addMessage(d, message) ==
    (IF /\ HasString(message, "text") /\ message.v.text.v \in Texts
        /\ "hub_id" \in DOMAIN message.v
        /\ IdOf(message.v.hub_id) \in 1..(MaxId + 1)
        /\ d.nextChild <= MaxId
     THEN LET row == [id |-> d.nextChild, hub_id |-> IdOf(message.v.hub_id),
                      text |-> message.v.text.v]
          IN {Resolved([d EXCEPT !.children = @ \cup {row}, !.nextChild = @ + 1],
                       ChildJs(row))}
     ELSE {})
    \cup {Rejected(d)}

\* a call [fn, args] of a data-access method, and its possible outcomes
Invoke(fn, args) == [fn |-> fn, args |-> args]
NoCall == [fn |-> "none", args |-> <<>>]

Outcomes(d, call) ==
    CASE call.fn = "find" -> find(d, call.args[1])
      [] call.fn = "findById" -> findById(d, call.args[1])
      [] call.fn = "add" -> add(d, call.args[1])
      [] call.fn = "remove" -> remove(d, call.args[1])
      [] call.fn = "update" -> update(d, call.args[1], call.args[2])
      [] call.fn = "findHubMessages" -> findHubMessages(d, call.args[1])
      [] call.fn = "findDogs" -> findDogs(d, call.args[1])
      [] call.fn = "findMessageById" -> findMessageById(d, call.args[1])
      [] call.fn = "addMessage" -> addMessage(d, call.args[1])

(***************************************************************************)
(* Responses.  A handler's result is the response it sends and what it     *)
(* wrote to the console: [status, body, how, log].                         *)
(***************************************************************************)
Json(status, body, log) == [status |-> status, body |-> body, how |-> "json", log |-> log]
Send(status, body, log) == [status |-> status, body |-> body, how |-> "send", log |-> log]
Message(text) == Obj([message |-> Str(text)])

\* the error a handler sees when it reads .length of undefined or null
TypeError == Err("TypeError")

(***************************************************************************)
(* hubs-router.js, first version (src/index.js lines 21-227).  For each    *)
(* handler: the data-access call it makes for a request, and the response  *)
(* it sends for the call's outcome out = [ok, value].                      *)
(***************************************************************************)
hubs_get_call(req) == Invoke("find", <<req.query>>)
hubs_get(req, out) ==
    IF out.ok
    THEN Json(200, out.value, <<req.query>>)
    ELSE Json(500, Message("Error retrieving the hubs"), <<req.query>>)

\* variant: the then-branch without the not-found check
hubs_getById_noNotFound(req, out) ==
    IF out.ok
    THEN Json(200, out.value, <<>>)
    ELSE Json(500, Message("Error retrieving the hub"), <<>>)

\* variant: the router remembers a failure; while a request that failed
\* has not left, every lookup is answered 500
hubs_getById_afterFailure(req, out) ==
    IF out.ok /\ ~\E c \in DOMAIN inflight : inflight[c].pc = "done" /\ ~inflight[c].out.ok
    THEN IF Truthy(out.value)
         THEN Json(200, out.value, <<>>)
         ELSE Json(404, Message("Hub not found"), <<>>)
    ELSE Json(500, Message("Error retrieving the hub"), <<>>)

hubs_getById_call(req) == Invoke("findById", <<Str(req.params.id)>>)
hubs_getById(req, out) ==
    IF out.ok
    THEN IF Truthy(out.value)
         THEN Json(200, out.value, <<>>)
         ELSE Json(404, Message("Hub not found"), <<>>)
    ELSE Json(500, Message("Error retrieving the hub"), <<>>)

hubs_post_call(req) == Invoke("add", <<req.body>>)
hubs_post(req, out) ==
    IF out.ok
    THEN Json(201, out.value, <<>>)
    ELSE Json(500, Message("Error adding the hub"), <<>>)

\* variant: a count of zero handled like a failure
hubs_delete_zeroIsFailure(req, out) ==
    IF out.ok /\ GreaterThanZero(out.value)
    THEN Json(200, Message("The hub has been nuked"), <<>>)
    ELSE Json(500, Message("Error removing the hub"), <<>>)

hubs_delete_call(req) == Invoke("remove", <<Str(req.params.id)>>)
hubs_delete(req, out) ==
    IF out.ok
    THEN IF GreaterThanZero(out.value)
         THEN Json(200, Message("The hub has been nuked"), <<>>)
         ELSE Json(404, Message("The hub could not be found"), <<>>)
    ELSE Json(500, Message("Error removing the hub"), <<>>)

hubs_put_call(req) == Invoke("update", <<Str(req.params.id), req.body>>)
hubs_put(req, out) ==
    IF out.ok
    THEN IF Truthy(out.value)
         THEN Json(200, out.value, <<>>)
         ELSE Json(404, Message("The hub could not be found"), <<>>)
    ELSE Json(500, Message("Error updating the hub"), <<>>)

hubs_getMessages_call(req) == Invoke("findHubMessages", <<Str(req.params.id)>>)
hubs_getMessages(req, out) ==
    LET catch(error) ==
            Json(500, Message("Error retrieving the messages for this hub"), <<error>>)
    IN IF out.ok
       THEN IF HasLength(out.value)
            THEN IF Length(out.value) > 0
                 THEN Json(200, out.value, <<>>)
                 ELSE Json(404, Message("No messages for this hub"), <<>>)
            ELSE catch(TypeError)
       ELSE catch(out.value)

\* variant: { hub_id: req.params.id, ...req.body }, the body's hub_id wins
hubs_messageInfo_bodyWins(req) == Obj(Spread([hub_id |-> Str(req.params.id)], Props(req.body)))

\* const messageInfo = { ...req.body, hub_id: req.params.id }
hubs_messageInfo(req) == Obj(Spread(Props(req.body), [hub_id |-> Str(req.params.id)]))

hubs_postMessage_call(req) == Invoke("addMessage", <<hubs_messageInfo(req)>>)
hubs_postMessage(req, out) ==
    IF out.ok
    THEN Json(201, out.value, <<>>)
    ELSE Json(500, Obj([err |-> out.value]), <<out.value>>)

(***************************************************************************)
(* hubs-router.js, second version (src/index.js lines 228-385): the same   *)
(* handlers, each catch logging the error, and one more route.             *)
(***************************************************************************)
\* variant: the route acknowledges with 202 Accepted
hubs2_gitRefs_accepted(req, out) == Send(202, Str("yay! you did it!"), <<>>)

hubs2_gitRefs_call(req) == NoCall
hubs2_gitRefs(req, out) == Send(200, Str("yay! you did it!"), <<>>)

hubs2_get_call(req) == Invoke("find", <<req.query>>)
hubs2_get(req, out) ==
    IF out.ok
    THEN Json(200, out.value, <<req.query>>)
    ELSE Json(500, Message("Error retrieving the hubs"), <<req.query, out.value>>)

\* variant: the lookup done with remove
hubs2_getById_call_remove(req) == Invoke("remove", <<Str(req.params.id)>>)

hubs2_getById_call(req) == Invoke("findById", <<Str(req.params.id)>>)
hubs2_getById(req, out) ==
    IF out.ok
    THEN IF Truthy(out.value)
         THEN Json(200, out.value, <<>>)
         ELSE Json(404, Message("Hub not found"), <<>>)
    ELSE Json(500, Message("Error retrieving the hub"), <<out.value>>)

hubs2_post_call(req) == Invoke("add", <<req.body>>)
hubs2_post(req, out) ==
    IF out.ok
    THEN Json(201, out.value, <<>>)
    ELSE Json(500, Message("Error adding the hub"), <<out.value>>)

hubs2_delete_call(req) == Invoke("remove", <<Str(req.params.id)>>)
hubs2_delete(req, out) ==
    IF out.ok
    THEN IF GreaterThanZero(out.value)
         THEN Json(200, Message("The hub has been nuked"), <<>>)
         ELSE Json(404, Message("The hub could not be found"), <<>>)
    ELSE Json(500, Message("Error removing the hub"), <<out.value>>)

\* variant: the arguments of update in the wrong order
hubs2_put_call_swapped(req) == Invoke("update", <<req.body, Str(req.params.id)>>)

hubs2_put_call(req) == Invoke("update", <<Str(req.params.id), req.body>>)
hubs2_put(req, out) ==
    IF out.ok
    THEN IF Truthy(out.value)
         THEN Json(200, out.value, <<>>)
         ELSE Json(404, Message("The hub could not be found"), <<>>)
    ELSE Json(500, Message("Error updating the hub"), <<out.value>>)

hubs2_getMessages_call(req) == Invoke("findHubMessages", <<Str(req.params.id)>>)
hubs2_getMessages(req, out) ==
    LET catch(error) ==
            Json(500, Message("Error retrieving the messages for this hub"), <<error>>)
    IN IF out.ok
       THEN IF HasLength(out.value)
            THEN IF Length(out.value) > 0
                 THEN Json(200, out.value, <<>>)
                 ELSE Json(404, Message("No messages for this hub"), <<>>)
            ELSE catch(TypeError)
       ELSE catch(out.value)

hubs2_messageInfo(req) == Obj(Spread(Props(req.body), [hub_id |-> Str(req.params.id)]))

hubs2_postMessage_call(req) == Invoke("addMessage", <<hubs2_messageInfo(req)>>)
hubs2_postMessage(req, out) ==
    IF out.ok
    THEN Json(201, out.value, <<>>)
    ELSE Json(500, Obj([err |-> out.value]), <<out.value>>)

(***************************************************************************)
(* messages-router.js (src/messages/messages-router.js lines 1-69).        *)
(***************************************************************************)
\* variant: the not-found body without its message
messages_getById_noMessage(req, out) ==
    IF out.ok
    THEN IF Truthy(out.value)
         THEN Json(200, out.value, <<Str(req.params.id), out.value>>)
         ELSE Json(404, Obj([success |-> Bool(FALSE)]), <<Str(req.params.id), out.value>>)
    ELSE Json(500, Obj([success |-> Bool(FALSE), message |-> out.value]),
              <<Str(req.params.id)>>)

\* variant: the id taken for a hub id, the hub's messages looked up
messages_getById_call_byHub(req) == Invoke("findHubMessages", <<Str(req.params.id)>>)

messages_getById_call(req) == Invoke("findMessageById", <<Str(req.params.id)>>)
messages_getById(req, out) ==
    IF out.ok
    THEN IF Truthy(out.value)
         THEN Json(200, out.value, <<Str(req.params.id), out.value>>)
         ELSE Json(404, Obj([success |-> Bool(FALSE), message |-> Str("invalid message id")]),
                   <<Str(req.params.id), out.value>>)
    ELSE Json(500, Obj([success |-> Bool(FALSE), message |-> out.value]),
              <<Str(req.params.id)>>)

(***************************************************************************)
(* adopters-router.js (src/api/adopters/adopters-router.js).               *)
(***************************************************************************)
adopters_get_call(req) == Invoke("find", <<req.query>>)
adopters_get(req, out) ==
    IF out.ok
    THEN Json(200, out.value, <<>>)
    ELSE Json(500, Message("Error retrieving the adopters"), <<out.value>>)

\* variant: the id read from the query string instead of the path
adopters_getById_call_fromQuery(req) ==
    Invoke("findById",
           <<IF "id" \in DOMAIN req.query.v THEN req.query.v.id ELSE Undefined>>)

adopters_getById_call(req) == Invoke("findById", <<Str(req.params.id)>>)
adopters_getById(req, out) ==
    IF out.ok
    THEN IF Truthy(out.value)
         THEN Json(200, out.value, <<>>)
         ELSE Json(404, Message("Adopter not found"), <<>>)
    ELSE Json(500, Message("Error retrieving the adopter"), <<out.value>>)

\* variant: no check for an empty collection
adopters_getDogs_noEmptyCheck(req, out) ==
    IF out.ok
    THEN Json(200, out.value, <<>>)
    ELSE Json(500, Message("Error retrieving the dogs for this adopter"), <<out.value>>)

\* the first GET /:id/dogs registration (lines 91-106)
adopters_getDogs_call(req) == Invoke("findDogs", <<Str(req.params.id)>>)
adopters_getDogs(req, out) ==
    LET catch(error) ==
            Json(500, Message("Error retrieving the dogs for this adopter"), <<error>>)
    IN IF out.ok
       THEN IF HasLength(out.value)
            THEN IF Length(out.value) > 0
                 THEN Json(200, out.value, <<>>)
                 ELSE Json(404, Message("No dogs for this adopter"), <<>>)
            ELSE catch(TypeError)
       ELSE catch(out.value)

\* the second GET /:id/dogs registration (lines 108-120)
adopters_getDogsAsync_call(req) == Invoke("findDogs", <<Str(req.params.id)>>)
adopters_getDogsAsync(req, out) ==
    LET catch(err) ==
            Json(500, Message("Error retrieving the dogs for this adopter"), <<err>>)
    IN IF out.ok
       THEN IF HasLength(out.value)
            THEN IF Length(out.value) > 0
                 THEN Json(200, out.value, <<>>)
                 ELSE Json(404, Message("No dogs for this adopter"), <<>>)
            ELSE catch(TypeError)
       ELSE catch(out.value)

\* variant: only the name field of the body is handed to add
adopters_post_call_nameOnly(req) ==
    Invoke("add", <<IF HasString(req.body, "name")
                    THEN Obj([name |-> req.body.v.name])
                    ELSE EmptyObject>>)

adopters_post_call(req) == Invoke("add", <<req.body>>)
adopters_post(req, out) ==
    IF out.ok
    THEN Json(201, out.value, <<>>)
    ELSE Json(500, Message("Error adding the adopter"), <<out.value>>)

\* variant: count >= 0 in place of count > 0
adopters_delete_countAny(req, out) ==
    IF out.ok
    THEN IF out.value.t = "number" /\ out.value.v >= 0
         THEN Json(200, Message("The adopter has been nuked"), <<>>)
         ELSE Json(404, Message("The adopter could not be found"), <<>>)
    ELSE Json(500, Message("Error removing the adopter"), <<out.value>>)

adopters_delete_call(req) == Invoke("remove", <<Str(req.params.id)>>)
adopters_delete(req, out) ==
    IF out.ok
    THEN IF GreaterThanZero(out.value)
         THEN Json(200, Message("The adopter has been nuked"), <<>>)
         ELSE Json(404, Message("The adopter could not be found"), <<>>)
    ELSE Json(500, Message("Error removing the adopter"), <<out.value>>)

adopters_put_call(req) == Invoke("update", <<Str(req.params.id), req.body>>)
adopters_put(req, out) ==
    IF out.ok
    THEN IF Truthy(out.value)
         THEN Json(200, out.value, <<>>)
         ELSE Json(404, Message("The adopter could not be found"), <<>>)
    ELSE Json(500, Message("Error updating the adopter"), <<out.value>>)

(***************************************************************************)
(* The adopters controller (src/unnamed/part_000).                         *)
(***************************************************************************)
\* variant: find called without the query-string parameters
getAdopters_call_noQuery(req) == Invoke("find", <<EmptyObject>>)

getAdopters_call(req) == Invoke("find", <<req.query>>)
getAdopters(req, out) ==
    IF out.ok
    THEN Json(200, out.value, <<>>)
    ELSE Json(500, Message("Error retrieving the adopters"), <<out.value>>)

getAdopterById_call(req) == Invoke("findById", <<Str(req.params.id)>>)
getAdopterById(req, out) ==
    IF out.ok
    THEN IF Truthy(out.value)
         THEN Json(200, out.value, <<>>)
         ELSE Json(404, Message("invalid id"), <<>>)
    ELSE Json(500, Message("Error retrieving the adopters"), <<out.value>>)

\* variant: the empty collection answered 404 as in the router
getAdopterDogs_emptyIs404(req, out) ==
    IF out.ok
    THEN IF Length(out.value) > 0
         THEN Json(200, out.value, <<>>)
         ELSE Json(404, Message("No dogs for this adopter"), <<>>)
    ELSE Json(500, Message("Error retrieving the adopters"), <<out.value>>)

getAdopterDogs_call(req) == Invoke("findDogs", <<Str(req.params.id)>>)
getAdopterDogs(req, out) ==
    IF out.ok
    THEN Json(200, out.value, <<>>)
    ELSE Json(500, Message("Error retrieving the adopters"), <<out.value>>)

\* variant: POST / implemented as in the router
postAdopter_call_implemented(req) == Invoke("add", <<req.body>>)

postAdopter_call(req) == NoCall
postAdopter(req, out) == Json(400, Obj([implemented |-> Bool(FALSE)]), <<>>)

deleteAdopterById_call(req) == NoCall
deleteAdopterById(req, out) == Json(400, Obj([implemented |-> Bool(FALSE)]), <<>>)

putAdopterById_call(req) == NoCall
putAdopterById(req, out) == Json(400, Obj([implemented |-> Bool(FALSE)]), <<>>)

\* module.exports: the entries of the controller mapping
controller ==
    {"getAdopters", "getAdopterById", "getAdopterDogs",
     "postAdopter", "deleteAdopterById", "putAdopterById"}

(***************************************************************************)
(* The applications (server.js): the JSON body parser, the routers bound   *)
(* to URL prefixes, and the welcome route.  A URL path is its sequence of  *)
(* segments: /api/hubs/1/messages is <<"api", "hubs", "1", "messages">>.   *)
(***************************************************************************)
\* variant: the welcome route looks the hubs up first
hubs_root_call_find(req) == Invoke("find", <<req.query>>)

hubs_root_call(req) == NoCall
hubs_root(req, out) == Send(200, Str("<h2>Lambda Hubs API</h>"), <<>>)

hubs2_root_call(req) == NoCall
hubs2_root(req, out) == Send(200, Str("<h2>Lambda Hubs API</h>"), <<>>)

adopters_root_call(req) == NoCall
adopters_root(req, out) == Send(200, Str("<h2>Lambda Animal Shelter API</h2>"), <<req.query>>)

Route(method, path, handler) == [method |-> method, path |-> path, handler |-> handler]

\* the routes of each Router object, in the order they are registered
hubsRouter ==
    << Route("GET", <<>>, "hubs_get"),
       Route("GET", <<":id">>, "hubs_getById"),
       Route("POST", <<>>, "hubs_post"),
       Route("DELETE", <<":id">>, "hubs_delete"),
       Route("PUT", <<":id">>, "hubs_put"),
       Route("GET", <<":id", "messages">>, "hubs_getMessages"),
       Route("POST", <<":id", "messages">>, "hubs_postMessage") >>

hubs2Router ==
    << Route("POST", <<":owner", ":repo", "git", "refs">>, "hubs2_gitRefs"),
       Route("GET", <<>>, "hubs2_get"),
       Route("GET", <<":id">>, "hubs2_getById"),
       Route("POST", <<>>, "hubs2_post"),
       Route("DELETE", <<":id">>, "hubs2_delete"),
       Route("PUT", <<":id">>, "hubs2_put"),
       Route("GET", <<":id", "messages">>, "hubs2_getMessages"),
       Route("POST", <<":id", "messages">>, "hubs2_postMessage") >>

messagesRouter ==
    << Route("GET", <<":id">>, "messages_getById") >>

AdoptersRouter ==
    << Route("GET", <<>>, "adopters_get"),
       Route("GET", <<":id">>, "adopters_getById"),
       Route("GET", <<":id", "dogs">>, "adopters_getDogs"),
       Route("GET", <<":id", "dogs">>, "adopters_getDogsAsync"),
       Route("POST", <<>>, "adopters_post"),
       Route("DELETE", <<":id">>, "adopters_delete"),
       Route("PUT", <<":id">>, "adopters_put") >>

\* the router that maps the controller's entries to the routes the
\* controller names for them
ControllerRouter ==
    << Route("GET", <<>>, "getAdopters"),
       Route("GET", <<":id">>, "getAdopterById"),
       Route("GET", <<":id", "dogs">>, "getAdopterDogs"),
       Route("POST", <<>>, "postAdopter"),
       Route("DELETE", <<":id">>, "deleteAdopterById"),
       Route("PUT", <<":id">>, "putAdopterById") >>

Use(prefix, router) == [prefix |-> prefix, routes |-> router]

\* variant: /repos bound to the messages router
hubsServer_reposElsewhere ==
    << Use(<<"api", "hubs">>, hubsRouter),
       Use(<<"repos">>, messagesRouter),
       Use(<<"thing", "otherthing">>, hubsRouter),
       Use(<<"api", "messages">>, messagesRouter),
       Use(<<>>, <<Route("GET", <<>>, "hubs_root")>>) >>

\* server.use(prefix, router) ..., then server.get('/', ...)
hubsServer ==
    << Use(<<"api", "hubs">>, hubsRouter),
       Use(<<"repos">>, hubsRouter),
       Use(<<"thing", "otherthing">>, hubsRouter),
       Use(<<"api", "messages">>, messagesRouter),
       Use(<<>>, <<Route("GET", <<>>, "hubs_root")>>) >>

hubs2Server ==
    << Use(<<"api", "hubs">>, hubs2Router),
       Use(<<"repos">>, hubs2Router),
       Use(<<"thing", "otherthing">>, hubs2Router),
       Use(<<"api", "messages">>, messagesRouter),
       Use(<<>>, <<Route("GET", <<>>, "hubs2_root")>>) >>

adoptersServer ==
    << Use(<<"api", "adopters">>, AdoptersRouter),
       Use(<<"i", "love", "dogs">>, AdoptersRouter),
       Use(<<>>, <<Route("GET", <<>>, "adopters_root")>>) >>

controllerServer ==
    << Use(<<"api", "adopters">>, ControllerRouter),
       Use(<<"i", "love", "dogs">>, ControllerRouter),
       Use(<<>>, <<Route("GET", <<>>, "adopters_root")>>) >>

Apps == {"hubs", "hubs2", "adopters", "controller"}

Server(a) ==
    CASE a = "hubs" -> hubsServer
      [] a = "hubs2" -> hubs2Server
      [] a = "adopters" -> adoptersServer
      [] a = "controller" -> controllerServer

(***************************************************************************)
(* Express routing: a layer bound to a prefix sees the path with the       *)
(* prefix stripped; inside a router the first route, in registration       *)
(* order, whose method and path pattern match handles the request.         *)
(***************************************************************************)
ParamSegments == {":id", ":owner", ":repo"}
ParamName(seg) ==
    CASE seg = ":id" -> "id" [] seg = ":owner" -> "owner" [] seg = ":repo" -> "repo"

StartsWith(url, prefix) ==
    Len(prefix) <= Len(url) /\ SubSeq(url, 1, Len(prefix)) = prefix

Strip(url, prefix) == SubSeq(url, Len(prefix) + 1, Len(url))

PathMatches(pattern, path) ==
    /\ Len(pattern) = Len(path)
    /\ \A i \in 1..Len(pattern) : pattern[i] \in ParamSegments \/ pattern[i] = path[i]

\* req.params for a matched pattern
Params(pattern, path) ==
    LET at == {i \in 1..Len(pattern) : pattern[i] \in ParamSegments}
    IN [n \in {ParamName(pattern[i]) : i \in at} |->
            path[CHOOSE i \in at : ParamName(pattern[i]) = n]]

RouteMatches(route, method, path) ==
    route.method = method /\ PathMatches(route.path, path)

\* the first matching route of a router, 0 when none matches
FirstRoute(routes, method, path) ==
    IF \E i \in 1..Len(routes) : RouteMatches(routes[i], method, path)
    THEN CHOOSE i \in 1..Len(routes) :
            /\ RouteMatches(routes[i], method, path)
            /\ \A j \in 1..(i - 1) : ~RouteMatches(routes[j], method, path)
    ELSE 0

LayerMatches(layer, method, url) ==
    /\ StartsWith(url, layer.prefix)
    /\ FirstRoute(layer.routes, method, Strip(url, layer.prefix)) # 0

NoHandler == [handler |-> "none", prefix |-> <<>>, params |-> <<>>]

\* the handler the application selects for a request, with the prefix that
\* was stripped and the path parameters
Resolve(server, method, url) ==
    IF \E k \in 1..Len(server) : LayerMatches(server[k], method, url)
    THEN LET k == CHOOSE k \in 1..Len(server) :
                     /\ LayerMatches(server[k], method, url)
                     /\ \A j \in 1..(k - 1) : ~LayerMatches(server[j], method, url)
             path == Strip(url, server[k].prefix)
             route == server[k].routes[FirstRoute(server[k].routes, method, path)]
         IN [handler |-> route.handler, prefix |-> server[k].prefix,
             params |-> Params(route.path, path)]
    ELSE NoHandler

\* every route the request matches, as <<layer, route>> positions; Express
\* tries them in the order of registration
Matching(server, method, url) ==
    {p \in UNION {{<<k, j>> : j \in 1..Len(server[k].routes)} : k \in 1..Len(server)} :
        /\ StartsWith(url, server[p[1]].prefix)
        /\ RouteMatches(server[p[1]].routes[p[2]], method, Strip(url, server[p[1]].prefix))}

Earlier(p, q) == p[1] < q[1] \/ (p[1] = q[1] /\ p[2] < q[2])

\* next(): the handler Express hands the request to when the handler h,
\* reached under the given prefix, passes it on
Following(server, method, url, prefix, h) ==
    LET all == Matching(server, method, url)
        here == CHOOSE p \in all :
                    /\ server[p[1]].prefix = prefix
                    /\ server[p[1]].routes[p[2]].handler = h
                    /\ \A q \in all :
                          server[q[1]].prefix = prefix /\ server[q[1]].routes[q[2]].handler = h
                              => q = p \/ Earlier(p, q)
        later == {q \in all : Earlier(here, q)}
    IN IF later = {} THEN NoHandler
       ELSE LET q == CHOOSE q \in later : \A r \in later : q = r \/ Earlier(q, r)
                route == server[q[1]].routes[q[2]]
            IN [handler |-> route.handler, prefix |-> server[q[1]].prefix,
                params |-> Params(route.path, Strip(url, server[q[1]].prefix))]

\* variant: every handler passes the request on after responding
CallsNext_always(h) == TRUE

\* variant: the first GET /:id/dogs handler passes the request on
CallsNext_firstDogs(h) == h = "adopters_getDogs"

\* whether the named handler passes the request on with next(): every
\* handler is declared (req, res) and ends the request with its response
CallsNext(h) == FALSE

\* the data-access call the named handler makes for a request
HandlerCall(h, req) ==
    CASE h = "hubs_get" -> hubs_get_call(req)
      [] h = "hubs_getById" -> hubs_getById_call(req)
      [] h = "hubs_post" -> hubs_post_call(req)
      [] h = "hubs_delete" -> hubs_delete_call(req)
      [] h = "hubs_put" -> hubs_put_call(req)
      [] h = "hubs_getMessages" -> hubs_getMessages_call(req)
      [] h = "hubs_postMessage" -> hubs_postMessage_call(req)
      [] h = "hubs_root" -> hubs_root_call(req)
      [] h = "hubs2_gitRefs" -> hubs2_gitRefs_call(req)
      [] h = "hubs2_get" -> hubs2_get_call(req)
      [] h = "hubs2_getById" -> hubs2_getById_call(req)
      [] h = "hubs2_post" -> hubs2_post_call(req)
      [] h = "hubs2_delete" -> hubs2_delete_call(req)
      [] h = "hubs2_put" -> hubs2_put_call(req)
      [] h = "hubs2_getMessages" -> hubs2_getMessages_call(req)
      [] h = "hubs2_postMessage" -> hubs2_postMessage_call(req)
      [] h = "hubs2_root" -> hubs2_root_call(req)
      [] h = "messages_getById" -> messages_getById_call(req)
      [] h = "adopters_get" -> adopters_get_call(req)
      [] h = "adopters_getById" -> adopters_getById_call(req)
      [] h = "adopters_getDogs" -> adopters_getDogs_call(req)
      [] h = "adopters_getDogsAsync" -> adopters_getDogsAsync_call(req)
      [] h = "adopters_post" -> adopters_post_call(req)
      [] h = "adopters_delete" -> adopters_delete_call(req)
      [] h = "adopters_put" -> adopters_put_call(req)
      [] h = "adopters_root" -> adopters_root_call(req)
      [] h = "getAdopters" -> getAdopters_call(req)
      [] h = "getAdopterById" -> getAdopterById_call(req)
      [] h = "getAdopterDogs" -> getAdopterDogs_call(req)
      [] h = "postAdopter" -> postAdopter_call(req)
      [] h = "deleteAdopterById" -> deleteAdopterById_call(req)
      [] h = "putAdopterById" -> putAdopterById_call(req)

\* the response the named handler sends for the outcome of its call
HandlerResponse(h, req, out) ==
    CASE h = "hubs_get" -> hubs_get(req, out)
      [] h = "hubs_getById" -> hubs_getById(req, out)
      [] h = "hubs_post" -> hubs_post(req, out)
      [] h = "hubs_delete" -> hubs_delete(req, out)
      [] h = "hubs_put" -> hubs_put(req, out)
      [] h = "hubs_getMessages" -> hubs_getMessages(req, out)
      [] h = "hubs_postMessage" -> hubs_postMessage(req, out)
      [] h = "hubs_root" -> hubs_root(req, out)
      [] h = "hubs2_gitRefs" -> hubs2_gitRefs(req, out)
      [] h = "hubs2_get" -> hubs2_get(req, out)
      [] h = "hubs2_getById" -> hubs2_getById(req, out)
      [] h = "hubs2_post" -> hubs2_post(req, out)
      [] h = "hubs2_delete" -> hubs2_delete(req, out)
      [] h = "hubs2_put" -> hubs2_put(req, out)
      [] h = "hubs2_getMessages" -> hubs2_getMessages(req, out)
      [] h = "hubs2_postMessage" -> hubs2_postMessage(req, out)
      [] h = "hubs2_root" -> hubs2_root(req, out)
      [] h = "messages_getById" -> messages_getById(req, out)
      [] h = "adopters_get" -> adopters_get(req, out)
      [] h = "adopters_getById" -> adopters_getById(req, out)
      [] h = "adopters_getDogs" -> adopters_getDogs(req, out)
      [] h = "adopters_getDogsAsync" -> adopters_getDogsAsync(req, out)
      [] h = "adopters_post" -> adopters_post(req, out)
      [] h = "adopters_delete" -> adopters_delete(req, out)
      [] h = "adopters_put" -> adopters_put(req, out)
      [] h = "adopters_root" -> adopters_root(req, out)
      [] h = "getAdopters" -> getAdopters(req, out)
      [] h = "getAdopterById" -> getAdopterById(req, out)
      [] h = "getAdopterDogs" -> getAdopterDogs(req, out)
      [] h = "postAdopter" -> postAdopter(req, out)
      [] h = "deleteAdopterById" -> deleteAdopterById(req, out)
      [] h = "putAdopterById" -> putAdopterById(req, out)

(***************************************************************************)
(* Requests.  The body arrives raw; express.json() turns it into req.body  *)
(* before any router sees the request: no body gives {}, a JSON object     *)
(* gives that object, and text that is not JSON ends the request with 400  *)
(* before routing.                                                         *)
(***************************************************************************)
Methods == {"GET", "POST", "PUT", "DELETE"}

NoBody == [kind |-> "none", value |-> EmptyObject]
Malformed == [kind |-> "malformed", value |-> EmptyObject]
JsonBody(o) == [kind |-> "json", value |-> o]

RawBodies ==
    { NoBody, Malformed,
      JsonBody(Obj([name |-> Str("b")])),
      JsonBody(Obj([text |-> Str("hi")])),
      JsonBody(Obj([text |-> Str("hi"), hub_id |-> Num(2)])) }

Queries == {EmptyObject, Obj([name |-> Str("a")])}

\* the name of the child collection in each application's URLs
Children(a) == IF a \in {"hubs", "hubs2"} THEN "messages" ELSE "dogs"

Suffixes(a) ==
    {<<>>} \cup {<<i>> : i \in IdStrings}
    \cup {<<i, Children(a)>> : i \in IdStrings}
    \cup {<<"o", "r", "git", "refs">>}

\* every path under a prefix a router is bound to, and the root path
Urls(a) ==
    {Server(a)[k].prefix \o suffix :
        k \in {j \in 1..Len(Server(a)) : Server(a)[j].prefix # <<>>}, suffix \in Suffixes(a)}
    \cup {<<>>}

Requests(a) ==
    {[method |-> m, url |-> u, query |-> q, raw |-> b] :
        m \in Methods, u \in Urls(a), q \in Queries, b \in RawBodies}

\* a request as the client can send it: only POST and PUT carry a body, and
\* only a GET of a collection (or of the root) carries a query string
WellFormed(a, r) ==
    /\ r.method \in {"GET", "DELETE"} => r.raw = NoBody
    /\ r.query # EmptyObject =>
            r.method = "GET" /\ \E k \in 1..Len(Server(a)) : Server(a)[k].prefix = r.url

BodyParsed(raw) == raw.kind # "malformed"
ParseBody(raw) == IF raw.kind = "json" THEN raw.value ELSE EmptyObject

BadRequest == Send(400, Str("SyntaxError: Unexpected token"), <<>>)
CannotRoute == Send(404, Str("Cannot route"), <<>>)

(***************************************************************************)
(* State.  Each connection carries one request at a time: idle, pending    *)
(* (the handler awaits the promise of its data-access call) or done (the   *)
(* response is sent).                                                      *)
(***************************************************************************)
NoOutcome == [ok |-> TRUE, value |-> Undefined]
NoResponse == Send(0, Undefined, <<>>)
NoRequest ==
    [method |-> "GET", url |-> <<>>, query |-> EmptyObject, raw |-> NoBody,
     body |-> EmptyObject, params |-> <<>>, prefix |-> <<>>]

\* calls: the data-access calls made for the request so far; sent: the
\* number of times a handler has sent a response for it
\* via: the middleware the request has passed through, in order
Idle ==
    [pc |-> "idle", req |-> NoRequest, handler |-> "none", call |-> NoCall,
     out |-> NoOutcome, res |-> NoResponse, calls |-> <<>>, sent |-> 0, via |-> <<>>]

Init ==
    /\ app \in Apps
    /\ db = SeededDb
    /\ inflight = [c \in {1} |-> Idle]
    /\ served = 0
    /\ nuked = {}

\* the requests a client can send to each application
RequestsOf == [a \in Apps |-> {r \in Requests(a) : WellFormed(a, r)}]

\* the handler the application selects for each of them
Dispatch ==
    [a \in Apps |-> [r \in RequestsOf[a] |-> Resolve(Server(a), r.method, r.url)]]

Accepting(c) ==
    /\ inflight[c].pc = "idle"
    /\ served < MaxRequests

\* variant: express.json() registered after the routers and the welcome route
ParserAfter_everything(a) == Len(Server(a))

\* the number of layers of the application registered ahead of
\* server.use(express.json()): the parser is registered first
ParserAfter(a) == 0

\* the layer of the application that handles the target
LayerOf(a, target) ==
    CHOOSE k \in 1..Len(Server(a)) :
        /\ Server(a)[k].prefix = target.prefix
        /\ \A j \in 1..(k - 1) : Server(a)[j].prefix # target.prefix

\* whether the request passes through express.json(): it does unless a
\* layer registered ahead of the parser ends it
ParsedFor(a, target) ==
    target.handler = "none" \/ ParserAfter(a) < LayerOf(a, target)

\* the middleware a request has passed through when the target's handler runs
Via(a, target) ==
    (IF ParsedFor(a, target) THEN <<"express.json">> ELSE <<>>)
    \o (IF target.handler = "none" THEN <<>> ELSE <<target.handler>>)

\* the request as the handler sees it: parsed body (req.body stays
\* undefined when the parser has not run), path parameters
Routed(r, target) ==
    [method |-> r.method, url |-> r.url, query |-> r.query, raw |-> r.raw,
     body |-> IF ParsedFor(app, target) THEN ParseBody(r.raw) ELSE Undefined,
     params |-> target.params, prefix |-> target.prefix]

\* the handler of the slot sends a response: the client receives the first
\* response sent for a request, the console everything that is logged
Respond(slot, out, response) ==
    [slot EXCEPT !.out = out,
                 !.res = IF slot.sent = 0 THEN response
                         ELSE [@ EXCEPT !.log = @ \o response.log],
                 !.sent = @ + 1]

\* the slot once its handler has responded: the request is over, unless
\* the handler calls next() and a later route matches, whose handler then
\* runs up to its data-access call
RECURSIVE After(_, _)
After(server, slot) ==
    LET nxt == Following(server, slot.req.method, slot.req.url, slot.req.prefix, slot.handler)
    IN IF CallsNext(slot.handler) /\ nxt.handler # "none"
       THEN LET req == [slot.req EXCEPT !.params = nxt.params, !.prefix = nxt.prefix]
                call == HandlerCall(nxt.handler, req)
                entered == [slot EXCEPT !.req = req, !.handler = nxt.handler, !.call = call]
            IN IF call.fn = "none"
               THEN After(server, Respond([entered EXCEPT !.via = Append(@, nxt.handler)],
                                          NoOutcome,
                                          HandlerResponse(nxt.handler, req, NoOutcome)))
               ELSE [entered EXCEPT !.pc = "pending", !.calls = Append(@, call),
                                    !.via = Append(@, nxt.handler)]
       ELSE [slot EXCEPT !.pc = "done"]

\* express.json() cannot parse the body: 400, no router sees the request
RejectBody(c, r) ==
    /\ Accepting(c)
    /\ ~BodyParsed(r.raw)
    /\ ParsedFor(app, Dispatch[app][r])
    /\ inflight' = [inflight EXCEPT ![c] =
            [pc |-> "done", req |-> Routed(r, NoHandler), handler |-> "none",
             call |-> NoCall, out |-> NoOutcome, res |-> BadRequest,
             calls |-> <<>>, sent |-> 1, via |-> Via(app, NoHandler)]]
    /\ served' = served + 1
    /\ UNCHANGED <<app, db, nuked>>

\* no layer of the application matches the method and URL: 404
NoRoute(c, r) ==
    /\ Accepting(c)
    /\ BodyParsed(r.raw)
    /\ Dispatch[app][r] = NoHandler
    /\ inflight' = [inflight EXCEPT ![c] =
            [pc |-> "done", req |-> Routed(r, NoHandler), handler |-> "none",
             call |-> NoCall, out |-> NoOutcome, res |-> CannotRoute,
             calls |-> <<>>, sent |-> 1, via |-> Via(app, NoHandler)]]
    /\ served' = served + 1
    /\ UNCHANGED <<app, db, nuked>>

\* the selected handler responds without calling the data-access module
HandleSync(c, r) ==
    /\ Accepting(c)
    /\ LET target == Dispatch[app][r]
           req == Routed(r, target)
       IN /\ target.handler # "none"
          /\ ParsedFor(app, target) => BodyParsed(r.raw)
          /\ HandlerCall(target.handler, req).fn = "none"
          /\ inflight' = [inflight EXCEPT ![c] =
                After(Server(app),
                      Respond([pc |-> "done", req |-> req, handler |-> target.handler,
                               call |-> NoCall, out |-> NoOutcome, res |-> NoResponse,
                               calls |-> <<>>, sent |-> 0, via |-> Via(app, target)],
                              NoOutcome, HandlerResponse(target.handler, req, NoOutcome)))]
    /\ served' = served + 1
    /\ UNCHANGED <<app, db, nuked>>

\* the selected handler calls the data-access module and awaits the promise
HandleCall(c, r) ==
    /\ Accepting(c)
    /\ LET target == Dispatch[app][r]
           req == Routed(r, target)
       IN /\ target.handler # "none"
          /\ ParsedFor(app, target) => BodyParsed(r.raw)
          /\ HandlerCall(target.handler, req).fn # "none"
          /\ inflight' = [inflight EXCEPT ![c] =
                [pc |-> "pending", req |-> req, handler |-> target.handler,
                 call |-> HandlerCall(target.handler, req), out |-> NoOutcome,
                 res |-> NoResponse,
                 calls |-> <<HandlerCall(target.handler, req)>>, sent |-> 0,
                 via |-> Via(app, target)]]
    /\ served' = served + 1
    /\ UNCHANGED <<app, db, nuked>>

\* the history after a response: a DELETE answered 200 adds its id, a
\* create answered 201 starts the history over
Observed(slot, res) ==
    CASE slot.req.method = "DELETE" /\ res.status = 200 -> nuked \cup {slot.req.params.id}
      [] slot.call.fn = "add" /\ res.status = 201 -> {}
      [] OTHER -> nuked

\* the promise settles: the call takes effect on the database, and the
\* handler's then/catch (or the code after await) sends the response
Settle(c) ==
    /\ inflight[c].pc = "pending"
    /\ \E o \in Outcomes(db, inflight[c].call) :
          LET out == [ok |-> o.ok, value |-> o.value]
              res == HandlerResponse(inflight[c].handler, inflight[c].req, out)
          IN /\ db' = o.db
             /\ inflight' = [inflight EXCEPT ![c] =
                    After(Server(app), Respond(inflight[c], out, res))]
             /\ nuked' = Observed(inflight[c], res)
    /\ UNCHANGED <<app, served>>

\* the response has gone out; the connection is free for the next request
Finish(c) ==
    /\ inflight[c].pc = "done"
    /\ inflight' = [inflight EXCEPT ![c] = Idle]
    /\ UNCHANGED <<app, db, served, nuked>>

Next ==
    \/ \E c \in DOMAIN inflight : Accepting(c) /\ \E r \in RequestsOf[app] : RejectBody(c, r)
    \/ \E c \in DOMAIN inflight : Accepting(c) /\ \E r \in RequestsOf[app] : NoRoute(c, r)
    \/ \E c \in DOMAIN inflight : Accepting(c) /\ \E r \in RequestsOf[app] : HandleSync(c, r)
    \/ \E c \in DOMAIN inflight : Accepting(c) /\ \E r \in RequestsOf[app] : HandleCall(c, r)
    \/ \E c \in DOMAIN inflight : Settle(c)
    \/ \E c \in DOMAIN inflight : Finish(c)

Spec == Init /\ [][Next]_vars

(***************************************************************************)
(* Several requests in flight.  The runtime interleaves the handlers of    *)
(* the requests it has accepted: two connections, whose data-access calls  *)
(* settle in any order.  The clients send, under the application's first   *)
(* prefix: GET and DELETE of the collection and of ids 1 and 2, GET of     *)
(* the children of 1, POST to the collection, and GET and POST of the      *)
(* root.                                                                   *)
(***************************************************************************)
ConcurrentRequests ==
    [a \in Apps |->
        {r \in RequestsOf[a] :
            /\ r.query = EmptyObject
            /\ r.raw \in {NoBody, Malformed, JsonBody(Obj([name |-> Str("b")]))}
            /\ \/ r.url = <<>> /\ r.method \in {"GET", "POST"}
               \/ /\ StartsWith(r.url, Server(a)[1].prefix)
                  /\ \/ /\ Strip(r.url, Server(a)[1].prefix) \in {<<>>, <<"1">>, <<"2">>}
                        /\ r.method \in {"GET", "DELETE"}
                     \/ /\ Strip(r.url, Server(a)[1].prefix) = <<"1", Children(a)>>
                        /\ r.method = "GET"
                     \/ /\ Strip(r.url, Server(a)[1].prefix) = <<>>
                        /\ r.method = "POST"}]

InitConcurrent ==
    /\ app \in Apps
    /\ db = SeededDb
    /\ inflight = [c \in {1, 2} |-> Idle]
    /\ served = 0
    /\ nuked = {}

NextConcurrent ==
    \/ \E c \in DOMAIN inflight :
          Accepting(c) /\ \E r \in ConcurrentRequests[app] : RejectBody(c, r)
    \/ \E c \in DOMAIN inflight :
          Accepting(c) /\ \E r \in ConcurrentRequests[app] : NoRoute(c, r)
    \/ \E c \in DOMAIN inflight :
          Accepting(c) /\ \E r \in ConcurrentRequests[app] : HandleSync(c, r)
    \/ \E c \in DOMAIN inflight :
          Accepting(c) /\ \E r \in ConcurrentRequests[app] : HandleCall(c, r)
    \/ \E c \in DOMAIN inflight : Settle(c)
    \/ \E c \in DOMAIN inflight : Finish(c)

SpecConcurrent == InitConcurrent /\ [][NextConcurrent]_vars

\* the same, every data-access call settling eventually
SpecSettling ==
    InitConcurrent /\ [][NextConcurrent]_vars /\ WF_vars(Settle(1)) /\ WF_vars(Settle(2))

(***************************************************************************)
(* Vocabulary of the properties.                                           *)
(***************************************************************************)
Conns == DOMAIN inflight
Done(c) == inflight[c].pc = "done"
Failed(c) == Done(c) /\ inflight[c].call.fn # "none" /\ ~inflight[c].out.ok
Succeeded(c) == Done(c) /\ inflight[c].call.fn # "none" /\ inflight[c].out.ok

\* the URL prefixes of the parent route groups and of the secondary group
HubsPrefixes == {<<"api", "hubs">>, <<"repos">>, <<"thing", "otherthing">>}
AdoptersPrefixes == {<<"api", "adopters">>, <<"i", "love", "dogs">>}
ParentPrefixes == HubsPrefixes \cup AdoptersPrefixes
SecondaryPrefixes == {<<"api", "messages">>}

\* the applications whose routers define their handlers inline
Inline == app \in {"hubs", "hubs2", "adopters"}

\* the request of connection c is METHOD prefix/suffix for one of the prefixes
Is(c, method, prefixes, suffix) ==
    /\ inflight[c].pc # "idle"
    /\ inflight[c].req.method = method
    /\ \E p \in prefixes : inflight[c].req.url = p \o suffix

\* the request is METHOD prefix/:id, resp. METHOD prefix/:id/<children>
IsById(c, method, prefixes) ==
    \E i \in IdStrings : Is(c, method, prefixes, <<i>>)
IsChildren(c, method, prefixes) ==
    \E i \in IdStrings : \E ch \in {"messages", "dogs"} : Is(c, method, prefixes, <<i, ch>>)

\* the :id segment of a prefix/:id or prefix/:id/<children> request
IdSegment(c) ==
    LET url == inflight[c].req.url
    IN IF url[Len(url)] \in {"messages", "dogs"} THEN url[Len(url) - 1] ELSE url[Len(url)]

\* the body is a JSON object with a property that is the error, or the error
BodyHasError(body, err) ==
    \/ body = err
    \/ body.t = "object" /\ \E f \in DOMAIN body.v : body.v[f] = err

HasMessage(body) == body.t = "object" /\ "message" \in DOMAIN body.v

StoredParent(i) == \E r \in db.parents : r.id = i
StoredParentAfter(i) == \E r \in db'.parents : r.id = i
StoredChild(i) == \E r \in db.children : r.id = i

(***************************************************************************)
(* C1: whenever a handler's data-access call fails, the response is 500    *)
(* and its body does not contain the raw error, unless the handler is the  *)
(* nested-message creation handler POST /:id/messages.                     *)
(***************************************************************************)
C1_OnlyNestedCreateLeaksError ==
    \A c \in Conns :
        Failed(c) =>
            /\ inflight[c].res.status = 500
            /\ BodyHasError(inflight[c].res.body, inflight[c].out.value) =>
                   IsChildren(c, "POST", HubsPrefixes)

(***************************************************************************)
(* C2: GET /:id on a parent route group answers 200 with the entity when   *)
(* findById resolves to a truthy value, 404 when it resolves to a falsy    *)
(* value, 500 when it rejects, and nothing else.                           *)
(***************************************************************************)
C2_GetByIdStatus ==
    \A c \in Conns :
        Done(c) /\ IsById(c, "GET", ParentPrefixes) =>
            LET out == inflight[c].out
                res == inflight[c].res
            IN /\ inflight[c].call = Invoke("findById", <<Str(IdSegment(c))>>)
               /\ out.ok /\ Truthy(out.value) => res.status = 200 /\ res.body = out.value
               /\ out.ok /\ ~Truthy(out.value) => res.status = 404
               /\ ~out.ok => res.status = 500
               /\ res.status \in {200, 404, 500}

\* a parent GET /:id has been answered 404 after findById resolved to undefined
C2_Witness ==
    \E c \in Conns :
        /\ Done(c) /\ IsById(c, "GET", ParentPrefixes)
        /\ inflight[c].out.ok /\ inflight[c].out.value = Undefined
        /\ inflight[c].res.status = 404

(***************************************************************************)
(* C3, as stated: for every id present in the store, GET /:id returns 200  *)
(* and a body whose id equals the requested id.                            *)
(***************************************************************************)
C3_PresentIdGets200 ==
    \A c \in Conns :
        Done(c) /\ IsById(c, "GET", ParentPrefixes) /\ StoredParent(ParseId(IdSegment(c))) =>
            /\ inflight[c].res.status = 200
            /\ inflight[c].res.body.v.id = Num(ParseId(IdSegment(c)))

(***************************************************************************)
(* C3, amended: for every id present in the store, GET /:id returns 200    *)
(* and a body whose id equals the requested id when findById does not      *)
(* fail, and 500 when it fails.                                            *)
(***************************************************************************)
C3_PresentIdGets200UnlessFailure ==
    \A c \in Conns :
        Done(c) /\ IsById(c, "GET", ParentPrefixes) /\ StoredParent(ParseId(IdSegment(c))) =>
            IF inflight[c].out.ok
            THEN /\ inflight[c].res.status = 200
                 /\ inflight[c].res.body.t = "object"
                 /\ inflight[c].res.body.v.id = Num(ParseId(IdSegment(c)))
            ELSE inflight[c].res.status = 500

\* GET /:id has been answered 200 for the id of a row that an earlier PUT
\* renamed, after an earlier POST created another row
C3_Witness ==
    \E c \in Conns :
        /\ Done(c) /\ IsById(c, "GET", ParentPrefixes)
        /\ IdSegment(c) = "1" /\ StoredParent(1)
        /\ db.nextParent > 2
        /\ inflight[c].res.status = 200
        /\ inflight[c].res.body.v.name = Str("b")

(***************************************************************************)
(* C4, as stated: for every id not present in the store, GET /:id returns  *)
(* 404 with a JSON object that has a message field, on the parent route    *)
(* groups and on the secondary route group.                                *)
(***************************************************************************)
C4_AbsentIdGets404 ==
    \A c \in Conns :
        /\ Done(c) /\ IsById(c, "GET", ParentPrefixes) /\ ~StoredParent(ParseId(IdSegment(c))) =>
              /\ inflight[c].res.status = 404
              /\ inflight[c].res.how = "json" /\ HasMessage(inflight[c].res.body)
        /\ Done(c) /\ IsById(c, "GET", SecondaryPrefixes) /\ ~StoredChild(ParseId(IdSegment(c))) =>
              /\ inflight[c].res.status = 404
              /\ inflight[c].res.how = "json" /\ HasMessage(inflight[c].res.body)

(***************************************************************************)
(* C4, amended: for every id not present in the store, GET /:id returns    *)
(* 404 with a JSON object that has a message field when the lookup does    *)
(* not fail, and 500 when it fails, on the parent route groups and on the  *)
(* secondary route group.                                                  *)
(***************************************************************************)
C4_AbsentIdGets404UnlessFailure ==
    \A c \in Conns :
        /\ Done(c) /\ IsById(c, "GET", ParentPrefixes) /\ ~StoredParent(ParseId(IdSegment(c))) =>
              IF inflight[c].out.ok
              THEN /\ inflight[c].res.status = 404
                   /\ inflight[c].res.how = "json" /\ HasMessage(inflight[c].res.body)
              ELSE inflight[c].res.status = 500
        /\ Done(c) /\ IsById(c, "GET", SecondaryPrefixes) /\ ~StoredChild(ParseId(IdSegment(c))) =>
              IF inflight[c].out.ok
              THEN /\ inflight[c].res.status = 404
                   /\ inflight[c].res.how = "json" /\ HasMessage(inflight[c].res.body)
              ELSE inflight[c].res.status = 500

\* GET /:id has been answered 404 for an id an earlier DELETE removed
C4_Witness ==
    \E c \in Conns :
        /\ Done(c) /\ IsById(c, "GET", ParentPrefixes)
        /\ IdSegment(c) \in nuked /\ ~StoredParent(ParseId(IdSegment(c)))
        /\ inflight[c].res.status = 404

(***************************************************************************)
(* C5: POST /:id/messages calls addMessage with a payload that has every   *)
(* field of the request body, except that hub_id is the :id path           *)
(* parameter whether or not the body has a hub_id; the response is 201     *)
(* with the created object on success and 500 on failure.                  *)
(***************************************************************************)
C5_NestedCreatePayload ==
    \A c \in Conns :
        /\ inflight[c].pc # "idle"
        /\ IsChildren(c, "POST", HubsPrefixes)
        /\ BodyParsed(inflight[c].req.raw)
        => LET body == ParseBody(inflight[c].req.raw).v
               call == inflight[c].call
               out == inflight[c].out
               res == inflight[c].res
           IN /\ call.fn = "addMessage"
              /\ Len(call.args) = 1
              /\ call.args[1].t = "object"
              /\ DOMAIN call.args[1].v = DOMAIN body \cup {"hub_id"}
              /\ call.args[1].v.hub_id = Str(IdSegment(c))
              /\ \A f \in DOMAIN body \ {"hub_id"} : call.args[1].v[f] = body[f]
              /\ Done(c) /\ out.ok => res.status = 201 /\ res.body = out.value
              /\ Done(c) /\ ~out.ok => res.status = 500

\* a message posted to /1/messages with hub_id 2 in its body has been
\* created under hub 1
C5_Witness ==
    \E c \in Conns :
        /\ Done(c) /\ IsChildren(c, "POST", HubsPrefixes)
        /\ IdSegment(c) = "1"
        /\ inflight[c].req.body = Obj([text |-> Str("hi"), hub_id |-> Num(2)])
        /\ inflight[c].res.status = 201
        /\ inflight[c].res.body.v.hub_id = Num(1)

(***************************************************************************)
(* C6: DELETE /:id (hubs and adopters routers) answers 200 with a          *)
(* confirmation message when remove reports a count above zero, which it   *)
(* does when the id matched a stored row, 404 when it reports zero rows,   *)
(* and 500 when remove fails; a second DELETE of an id already answered    *)
(* 200, with no create in between, is answered 404 by the same rule        *)
(* (never 200 again).                                                      *)
(***************************************************************************)
C6_DeleteStep(c) ==
    /\ inflight[c].pc = "pending"
    /\ inflight'[c].pc = "done"
    /\ IsById(c, "DELETE", ParentPrefixes)
    /\ Inline
    => LET i == ParseId(IdSegment(c))
           out == inflight'[c].out
           res == inflight'[c].res
       IN /\ inflight[c].call = Invoke("remove", <<Str(IdSegment(c))>>)
          /\ out.ok => out.value.t = "number"
          /\ out.ok /\ StoredParent(i) => out.value.v > 0
          /\ out.ok /\ ~StoredParent(i) => out.value.v = 0
          /\ out.ok /\ out.value.v > 0 =>
                /\ res.status = 200 /\ HasMessage(res.body)
                /\ ~StoredParentAfter(i)
          /\ out.ok /\ out.value.v = 0 => res.status = 404
          /\ ~out.ok => res.status = 500
          /\ IdSegment(c) \in nuked =>
                /\ res.status # 200
                /\ out.ok => res.status = 404

C6_Delete == [][\A c \in Conns : C6_DeleteStep(c)]_vars

\* a DELETE of an id that an earlier DELETE was answered 200 for has been
\* answered 404
C6_Witness ==
    \E c \in Conns :
        /\ Done(c) /\ IsById(c, "DELETE", ParentPrefixes) /\ Inline
        /\ IdSegment(c) \in nuked
        /\ inflight[c].res.status = 404

(***************************************************************************)
(* C7: two URL prefixes bound to the same route group select the same      *)
(* handler for the same method, suffix path and body, and from the same    *)
(* store state and collaborator outcome the two requests get the same      *)
(* status and the same response body.                                      *)
(***************************************************************************)
AliasGroups == {HubsPrefixes, AdoptersPrefixes}

\* the request r with its prefix p replaced by the prefix q
Aliased(r, p, q) ==
    [method |-> r.method, url |-> q \o Strip(r.url, p), query |-> r.query, raw |-> r.raw]

C7_SameUnder(c, p, q) ==
    LET alias == Aliased(inflight[c].req, p, q)
        target == Resolve(Server(app), alias.method, alias.url)
        req == Routed(alias, target)
    IN /\ target.handler = inflight[c].handler
       /\ target.handler # "none" =>
            /\ HandlerCall(target.handler, req) = inflight[c].call
            /\ Done(c) =>
                  LET res == HandlerResponse(target.handler, req, inflight[c].out)
                  IN /\ res.status = inflight[c].res.status
                     /\ res.body = inflight[c].res.body

C7_AliasPrefixes ==
    \A c \in Conns :
        inflight[c].pc # "idle" =>
            \A g \in AliasGroups : \A p \in g : \A q \in g :
                StartsWith(inflight[c].req.url, p) =>
                    IF BodyParsed(inflight[c].req.raw)
                    THEN C7_SameUnder(c, p, q)
                    ELSE inflight[c].handler = "none" /\ inflight[c].res = BadRequest

\* a request under /repos has been answered 200 by a handler of the hubs router
C7_Witness ==
    \E c \in Conns :
        /\ Done(c)
        /\ StartsWith(inflight[c].req.url, <<"repos">>)
        /\ inflight[c].handler # "none"
        /\ inflight[c].call.fn # "none"
        /\ inflight[c].res.status = 200

(***************************************************************************)
(* C8: GET /:id/messages and GET /:id/dogs (hubs and adopters routers)     *)
(* answer 200 with the array when the collaborator resolves to a           *)
(* non-empty collection, 404 when it resolves to an empty collection, and  *)
(* 500 when it fails.                                                      *)
(***************************************************************************)
C8_ChildrenStatus ==
    \A c \in Conns :
        Done(c) /\ IsChildren(c, "GET", ParentPrefixes) /\ Inline =>
            LET out == inflight[c].out
                res == inflight[c].res
            IN /\ inflight[c].call.fn \in {"findHubMessages", "findDogs"}
               /\ inflight[c].call.args = <<Str(IdSegment(c))>>
               /\ out.ok => out.value.t = "array"
               /\ out.ok /\ Len(out.value.v) > 0 => res.status = 200 /\ res.body = out.value
               /\ out.ok /\ Len(out.value.v) = 0 => res.status = 404
               /\ ~out.ok => res.status = 500

\* the children of a parent that has none have been asked for: 404
C8_Witness ==
    \E c \in Conns :
        /\ Done(c) /\ IsChildren(c, "GET", ParentPrefixes) /\ Inline
        /\ inflight[c].out.ok /\ inflight[c].out.value = Arr(<<>>)
        /\ inflight[c].res.status = 404

(***************************************************************************)
(* C9: PUT /:id (hubs and adopters routers) passes the :id path parameter  *)
(* and the request body to update, and answers 200 with the updated        *)
(* object when update resolves to a truthy value, 404 when it resolves to  *)
(* a falsy value, and 500 when it fails.                                   *)
(***************************************************************************)
C9_PutStatus ==
    \A c \in Conns :
        /\ inflight[c].pc # "idle"
        /\ IsById(c, "PUT", ParentPrefixes)
        /\ Inline
        /\ BodyParsed(inflight[c].req.raw)
        => LET out == inflight[c].out
               res == inflight[c].res
           IN /\ inflight[c].call =
                    Invoke("update", <<Str(IdSegment(c)), ParseBody(inflight[c].req.raw)>>)
              /\ Done(c) /\ out.ok /\ Truthy(out.value) =>
                    res.status = 200 /\ res.body = out.value
              /\ Done(c) /\ out.ok /\ ~Truthy(out.value) => res.status = 404
              /\ Done(c) /\ ~out.ok => res.status = 500

\* a PUT has renamed a stored parent and been answered 200 with the new row
C9_Witness ==
    \E c \in Conns :
        /\ Done(c) /\ IsById(c, "PUT", ParentPrefixes) /\ Inline
        /\ inflight[c].req.body = Obj([name |-> Str("b")])
        /\ inflight[c].res.status = 200
        /\ inflight[c].res.body = Obj([id |-> Num(ParseId(IdSegment(c))), name |-> Str("b")])
        /\ [id |-> ParseId(IdSegment(c)), name |-> "b"] \in db.parents

(***************************************************************************)
(* C10: POST / on a parent route group (hubs and adopters routers) hands   *)
(* the request body to add unchanged, whatever fields it has or lacks,     *)
(* and answers 201 with the created object when add succeeds and 500 when  *)
(* it fails; the handler never answers 400 or 404.                         *)
(***************************************************************************)
C10_CreateForwardsBody ==
    \A c \in Conns :
        /\ inflight[c].pc # "idle"
        /\ Is(c, "POST", ParentPrefixes, <<>>)
        /\ Inline
        /\ BodyParsed(inflight[c].req.raw)
        => LET out == inflight[c].out
               res == inflight[c].res
           IN /\ inflight[c].handler # "none"
              /\ inflight[c].call = Invoke("add", <<ParseBody(inflight[c].req.raw)>>)
              /\ Done(c) /\ out.ok => res.status = 201 /\ res.body = out.value
              /\ Done(c) /\ ~out.ok => res.status = 500
              /\ Done(c) => res.status \notin {400, 404}

\* a body without the name field has reached add, and add's failure has
\* been answered 500
C10_Witness ==
    \E c \in Conns :
        /\ Done(c) /\ Is(c, "POST", ParentPrefixes, <<>>) /\ Inline
        /\ inflight[c].req.raw = JsonBody(Obj([text |-> Str("hi")]))
        /\ inflight[c].call = Invoke("add", <<Obj([text |-> Str("hi")])>>)
        /\ inflight[c].res.status = 500

(***************************************************************************)
(* C11: GET / on a parent route group (hubs, adopters, controller) calls   *)
(* find with the request's query-string parameters, and answers 200 with   *)
(* whatever collection find resolves to, the empty collection included     *)
(* (never 404), and 500 when find fails.                                   *)
(***************************************************************************)
C11_GetCollection ==
    \A c \in Conns :
        inflight[c].pc # "idle" /\ Is(c, "GET", ParentPrefixes, <<>>) =>
            LET out == inflight[c].out
                res == inflight[c].res
            IN /\ inflight[c].handler # "none"
               /\ inflight[c].call = Invoke("find", <<inflight[c].req.query>>)
               /\ Done(c) /\ out.ok => res.status = 200 /\ res.body = out.value
               /\ Done(c) /\ ~out.ok => res.status = 500
               /\ Done(c) => res.status # 404

\* a filtered GET / that matches no stored parent has been answered 200
\* with the empty collection
C11_Witness ==
    \E c \in Conns :
        /\ Done(c) /\ Is(c, "GET", ParentPrefixes, <<>>)
        /\ inflight[c].req.query = Obj([name |-> Str("a")])
        /\ inflight[c].call = Invoke("find", <<Obj([name |-> Str("a")])>>)
        /\ inflight[c].out.ok /\ inflight[c].out.value = Arr(<<>>)
        /\ inflight[c].res.status = 200 /\ inflight[c].res.body = Arr(<<>>)

(***************************************************************************)
(* C12: GET /api/messages/:id looks the message up by its own id alone     *)
(* (findMessageById with the :id path parameter, no hub id), and answers   *)
(* 200 with the object when the lookup resolves to a truthy value, 404     *)
(* when it resolves to a falsy value, and 500 when it fails.               *)
(***************************************************************************)
C12_SecondaryGetById ==
    \A c \in Conns :
        inflight[c].pc # "idle" /\ IsById(c, "GET", SecondaryPrefixes) =>
            LET out == inflight[c].out
                res == inflight[c].res
            IN /\ inflight[c].handler # "none"
               /\ inflight[c].call = Invoke("findMessageById", <<Str(IdSegment(c))>>)
               /\ Done(c) /\ out.ok /\ Truthy(out.value) =>
                     res.status = 200 /\ res.body = out.value
               /\ Done(c) /\ out.ok /\ ~Truthy(out.value) => res.status = 404
               /\ Done(c) /\ ~out.ok => res.status = 500

\* message 2, stored under hub 1, has been fetched by its own id: hub 2
\* has no message, and no message has id 1 under hub 2
C12_Witness ==
    \E c \in Conns :
        /\ Done(c) /\ Is(c, "GET", SecondaryPrefixes, <<"2">>)
        /\ inflight[c].res.status = 200
        /\ inflight[c].res.body.v.id = Num(2)
        /\ inflight[c].res.body.v.hub_id = Num(1)

(***************************************************************************)
(* C13: for every handler that has a not-found outcome (GET /:id,          *)
(* GET /:id/messages, GET /:id/dogs, PUT /:id, DELETE /:id, and            *)
(* GET /api/messages/:id): when the data-access call succeeds with an      *)
(* empty or falsy result (null, undefined, 0, empty collection) the        *)
(* response is 404, and a 500 is sent only when the call failed.           *)
(***************************************************************************)
\* the handlers that have a 404 branch
NotFoundHandlers ==
    {"hubs_getById", "hubs_delete", "hubs_put", "hubs_getMessages",
     "hubs2_getById", "hubs2_delete", "hubs2_put", "hubs2_getMessages",
     "messages_getById",
     "adopters_getById", "adopters_getDogs", "adopters_getDogsAsync",
     "adopters_delete", "adopters_put",
     "getAdopterById"}

\* null, undefined, 0, "" and false, and the empty collection
EmptyOrFalsy(x) == ~Truthy(x) \/ (x.t = "array" /\ Len(x.v) = 0)

C13_NotFoundIsNotFailure ==
    \A c \in Conns :
        Done(c) /\ inflight[c].handler \in NotFoundHandlers =>
            /\ inflight[c].out.ok /\ EmptyOrFalsy(inflight[c].out.value) =>
                    inflight[c].res.status = 404
            /\ inflight[c].res.status = 500 => ~inflight[c].out.ok

\* update has resolved to null for an id that is not stored: 404
C13_Witness ==
    \E c \in Conns :
        /\ Done(c) /\ inflight[c].handler \in NotFoundHandlers
        /\ inflight[c].call.fn = "update"
        /\ inflight[c].out.ok /\ inflight[c].out.value = Null
        /\ inflight[c].res.status = 404

(***************************************************************************)
(* C14: the stubs of the controller mapping.  An entry is a stub when, for *)
(* every request and every outcome, it makes no data-access call and       *)
(* answers 400 with { implemented: false }.                                *)
(***************************************************************************)
NotImplemented == Json(400, Obj([implemented |-> Bool(FALSE)]), <<>>)

\* requests and outcomes a controller entry can be handed
EntryRequests ==
    {[NoRequest EXCEPT !.params = [id |-> i], !.body = ParseBody(b), !.query = q] :
        i \in IdStrings, b \in RawBodies, q \in Queries}
EntryOutcomes ==
    {NoOutcome, [ok |-> TRUE, value |-> Arr(<<>>)], [ok |-> FALSE, value |-> DbError]}

IsStub(h) ==
    \A req \in EntryRequests :
        /\ HandlerCall(h, req) = NoCall
        /\ \A out \in EntryOutcomes : HandlerResponse(h, req, out) = NotImplemented

Stubs == {h \in controller : IsStub(h)}

\* connection c takes up a request that is routed to a stub
C14_StubStep(c) ==
    /\ inflight[c].pc = "idle"
    /\ inflight'[c].pc # "idle"
    /\ inflight'[c].handler \in Stubs

\* what the stub does in that step: it responds at once, 400 with
\* { implemented: false }, without a data-access call, the store unchanged
C14_StubEffect(c) ==
    /\ inflight'[c].pc = "done"
    /\ inflight'[c].res = NotImplemented
    /\ inflight'[c].call = NoCall
    /\ db' = db

\* C14 as stated: the controller mapping has four stubs, each answering 400
\* with { implemented: false }, no data-access call, the store unchanged
C14_FourStubs ==
    [][/\ Cardinality(Stubs) = 4
       /\ \A c \in Conns : C14_StubStep(c) => C14_StubEffect(c)]_vars

\* C14, amended: the controller mapping has three stubs (postAdopter,
\* deleteAdopterById, putAdopterById), each answering 400 with
\* { implemented: false }, no data-access call, the store unchanged
C14_ThreeStubs ==
    [][/\ Cardinality(Stubs) = 3
       /\ Stubs = {"postAdopter", "deleteAdopterById", "putAdopterById"}
       /\ \A c \in Conns : C14_StubStep(c) => C14_StubEffect(c)]_vars

\* a PUT that would rename stored parent 1 has been answered by the stub,
\* and parent 1 keeps its name
C14_Witness ==
    \E c \in Conns :
        /\ Done(c) /\ inflight[c].handler = "putAdopterById"
        /\ inflight[c].req.params.id = "1"
        /\ inflight[c].req.body = Obj([name |-> Str("b")])
        /\ inflight[c].res = NotImplemented
        /\ [id |-> 1, name |-> "a"] \in db.parents

(***************************************************************************)
(* C15: each implemented controller handler (getAdopters, getAdopterById,  *)
(* getAdopterDogs) behaves as the inline adopters-router handler of the    *)
(* same endpoint: for every request and every outcome of the data-access   *)
(* call, the same call, the same status code and the same response body.   *)
(***************************************************************************)
\* the inline handler of the endpoint a controller entry serves
InlineOf(h) ==
    CASE h = "getAdopters" -> "adopters_get"
      [] h = "getAdopterById" -> "adopters_getById"
      [] h = "getAdopterDogs" -> "adopters_getDogs"

C15_ControllerMatchesInline ==
    \A c \in Conns :
        Done(c) /\ inflight[c].handler \in {"getAdopters", "getAdopterById", "getAdopterDogs"} =>
            LET inline == HandlerResponse(InlineOf(inflight[c].handler),
                                          inflight[c].req, inflight[c].out)
            IN /\ inflight[c].call = HandlerCall(InlineOf(inflight[c].handler), inflight[c].req)
               /\ inflight[c].res.status = inline.status
               /\ inflight[c].res.body = inline.body

(***************************************************************************)
(* C16: every status code a handler sends (route groups, controller        *)
(* entries and stubs, root route), for any request and any outcome of its  *)
(* data-access call, is one of 200, 201, 400, 404, 500.                    *)
(***************************************************************************)
StatusCodes == {200, 201, 400, 404, 500}

C16_StatusCodes ==
    \A c \in Conns :
        Done(c) /\ inflight[c].handler # "none" =>
            inflight[c].res.status \in StatusCodes

\* a handler has sent 201, the code only the create handlers send
C16_Witness ==
    \E c \in Conns :
        /\ Done(c) /\ inflight[c].handler # "none"
        /\ inflight[c].call.fn \in {"add", "addMessage"}
        /\ inflight[c].res.status = 201

(***************************************************************************)
(* C17: in the controller variant, GET /:id/dogs (getAdopterDogs) answers  *)
(* 200 with the collection whenever findDogs succeeds, empty or not, and   *)
(* never answers 404.                                                      *)
(***************************************************************************)
C17_ControllerDogs ==
    \A c \in Conns :
        /\ inflight[c].pc # "idle"
        /\ app = "controller"
        /\ IsChildren(c, "GET", AdoptersPrefixes)
        => /\ inflight[c].handler = "getAdopterDogs"
           /\ inflight[c].call = Invoke("findDogs", <<Str(IdSegment(c))>>)
           /\ Done(c) /\ inflight[c].out.ok =>
                 /\ inflight[c].res.status = 200
                 /\ inflight[c].res.body = inflight[c].out.value
           /\ Done(c) => inflight[c].res.status # 404

\* the dogs of an adopter that has none have been asked for: 200 with []
C17_Witness ==
    \E c \in Conns :
        /\ Done(c) /\ inflight[c].handler = "getAdopterDogs"
        /\ inflight[c].out.ok /\ inflight[c].out.value = Arr(<<>>)
        /\ inflight[c].res.status = 200 /\ inflight[c].res.body = Arr(<<>>)

(***************************************************************************)
(* C18: each handler makes at most one data-access call per request, on    *)
(* every path: the nested-create handler makes the single call addMessage  *)
(* with the merged payload and no lookup of the hub, and GET /:id/dogs,    *)
(* registered twice in the adopters router, makes a single findDogs call.  *)
(***************************************************************************)
C18_AtMostOneCall ==
    \A c \in Conns :
        /\ Len(inflight[c].calls) <= 1
        /\ inflight[c].handler # "none" /\ IsChildren(c, "POST", HubsPrefixes) =>
                inflight[c].calls =
                    <<Invoke("addMessage",
                             <<Obj(Spread(inflight[c].req.body.v,
                                          [hub_id |-> Str(IdSegment(c))]))>>)>>
        /\ inflight[c].handler # "none" /\ IsChildren(c, "GET", AdoptersPrefixes) =>
                inflight[c].calls = <<Invoke("findDogs", <<Str(IdSegment(c))>>)>>

\* GET /:id/dogs of the adopters router has been answered by its first
\* registration after one findDogs call
C18_Witness ==
    \E c \in Conns :
        /\ Done(c) /\ app = "adopters" /\ IsChildren(c, "GET", AdoptersPrefixes)
        /\ inflight[c].handler = "adopters_getDogs"
        /\ inflight[c].calls = <<Invoke("findDogs", <<Str(IdSegment(c))>>)>>
        /\ inflight[c].sent = 1

(***************************************************************************)
(* C19: the number of data-access calls a handled request completes with.  *)
(***************************************************************************)
\* the handlers that respond without a data-access call: the controller's
\* stubs, POST /:owner/:repo/git/refs, and the welcome routes GET /
Callless == Stubs \cup {"hubs2_gitRefs", "hubs_root", "hubs2_root", "adopters_root"}

\* C19 as stated: every request handled by a handler completes with exactly
\* one data-access call, never zero and never more than one
C19_ExactlyOneCall ==
    \A c \in Conns :
        Done(c) /\ inflight[c].handler # "none" => Len(inflight[c].calls) = 1

\* C19, amended: a handled request completes with exactly one data-access
\* call, except that requests handled by a controller stub, by
\* POST /:owner/:repo/git/refs or by the welcome route GET / complete with
\* none; no request completes with more than one
C19_OneCallUnlessCallless ==
    \A c \in Conns :
        Done(c) /\ inflight[c].handler # "none" =>
            Len(inflight[c].calls) = IF inflight[c].handler \in Callless THEN 0 ELSE 1

\* POST /repos/o/r/git/refs has been answered without any data-access call
C19_Witness ==
    \E c \in Conns :
        /\ Done(c) /\ inflight[c].handler = "hubs2_gitRefs"
        /\ inflight[c].req.method = "POST"
        /\ inflight[c].calls = <<>>
        /\ inflight[c].res.status = 200

(***************************************************************************)
(* C20: whenever a data-access call fails, the handler writes the failure  *)
(* to the console before or when it sends the 500 response; this holds     *)
(* for every handler of every route group.                                 *)
(***************************************************************************)
\* the value x is among the values written to the console
Logged(log, x) == \E i \in 1..Len(log) : log[i] = x

C20_FailureLogged ==
    \A c \in Conns :
        Failed(c) =>
            /\ inflight[c].res.status = 500
            /\ Logged(inflight[c].res.log, inflight[c].out.value)

(***************************************************************************)
(* C21: for every request that reaches a handler, express.json() has run   *)
(* before the prefix match and before the handler, so the handler sees     *)
(* the parsed body; a request whose body cannot be parsed reaches no       *)
(* handler.                                                                *)
(***************************************************************************)
C21_BodyParsedFirst ==
    \A c \in Conns :
        inflight[c].pc # "idle" =>
            /\ inflight[c].via # <<>> /\ inflight[c].via[1] = "express.json"
            /\ inflight[c].handler # "none" =>
                    /\ inflight[c].via = <<"express.json", inflight[c].handler>>
                    /\ BodyParsed(inflight[c].req.raw)
                    /\ inflight[c].req.body = ParseBody(inflight[c].req.raw)
            /\ ~BodyParsed(inflight[c].req.raw) =>
                    /\ inflight[c].handler = "none"
                    /\ inflight[c].calls = <<>>
                    /\ inflight[c].res = BadRequest

\* a POST with a JSON body has reached the nested-create handler of a
\* router bound to a prefix, which sees the body as an object
C21_Witness ==
    \E c \in Conns :
        /\ inflight[c].pc # "idle"
        /\ IsChildren(c, "POST", HubsPrefixes)
        /\ inflight[c].req.raw = JsonBody(Obj([text |-> Str("hi")]))
        /\ inflight[c].req.body = Obj([text |-> Str("hi")])
        /\ inflight[c].via = <<"express.json", inflight[c].handler>>
        /\ inflight[c].handler \in {"hubs_postMessage", "hubs2_postMessage"}

(***************************************************************************)
(* C22: with several requests in flight and their data-access calls        *)
(* settling in any interleaving, the status and body of each response are  *)
(* determined by that request's own method, URL, query and body and by     *)
(* the outcome of its own call: a failure (500) of one request changes     *)
(* the response of no other request, in flight or later, and no step of    *)
(* one request touches another.                                            *)
(***************************************************************************)
\* the response computed from the request of connection c and the outcome
\* of its call alone
OwnResponse(c) ==
    LET r == [method |-> inflight[c].req.method, url |-> inflight[c].req.url,
              query |-> inflight[c].req.query, raw |-> inflight[c].req.raw]
        target == Resolve(Server(app), r.method, r.url)
    IN HandlerResponse(target.handler, Routed(r, target), inflight[c].out)

C22_OwnInputsOnly ==
    \A c \in Conns :
        Done(c) /\ inflight[c].handler # "none" =>
            /\ inflight[c].res.status = OwnResponse(c).status
            /\ inflight[c].res.body = OwnResponse(c).body
            /\ \A d \in Conns :
                  /\ Done(d)
                  /\ inflight[d].req = inflight[c].req
                  /\ inflight[d].out = inflight[c].out
                  => /\ inflight[d].res.status = inflight[c].res.status
                     /\ inflight[d].res.body = inflight[c].res.body

\* a step changes the slot of one connection at most, and a response that
\* has been sent stays as it is until its connection is free again
C22_OthersUntouched ==
    /\ \A c \in Conns : \A d \in Conns :
          c # d /\ inflight'[c] # inflight[c] => inflight'[d] = inflight[d]
    /\ \A c \in Conns :
          Done(c) /\ inflight'[c] # inflight[c] => inflight'[c] = Idle

C23_NeverTwo ==
    \A c \in Conns :
        /\ inflight[c].pc = "pending" => inflight[c].sent = 0
        /\ Done(c) => inflight[c].sent = 1
        /\ inflight[c].handler # "adopters_getDogsAsync"
        /\ ~Logged(inflight[c].via, "adopters_getDogsAsync")

\* the pending request of connection c is answered
C23_Answered(c) ==
    inflight[c].pc = "pending" ~> (inflight[c].pc = "done" /\ inflight[c].sent = 1)

C23_ExactlyOneResponse ==
    /\ [](C23_NeverTwo)
    /\ C23_Answered(1)
    /\ C23_Answered(2)

\* GET /:id/dogs of the adopters router has been answered 500, once, by
\* its first registration, while the call of another request is pending
C23_Witness ==
    \E c \in Conns : \E d \in Conns :
        /\ Done(c) /\ app = "adopters" /\ IsChildren(c, "GET", AdoptersPrefixes)
        /\ inflight[c].via = <<"express.json", "adopters_getDogs">>
        /\ ~inflight[c].out.ok /\ inflight[c].res.status = 500
        /\ inflight[c].sent = 1
        /\ inflight[d].pc = "pending"

(***************************************************************************)
(* C24: every GET handler calls only read methods of the data-access       *)
(* module (find, findById, findHubMessages, findDogs, findMessageById) or  *)
(* none, so a GET leaves the stored parents and children unchanged         *)
(* whatever its outcome; add, addMessage, update and remove are called by  *)
(* POST, PUT and DELETE handlers only.                                     *)
(***************************************************************************)
ReadMethods == {"find", "findById", "findHubMessages", "findDogs", "findMessageById"}
WriteMethods == {"add", "addMessage", "update", "remove"}

C24_GetCallsReads ==
    \A c \in Conns :
        inflight[c].pc # "idle" =>
            /\ inflight[c].req.method = "GET" =>
                  \A i \in 1..Len(inflight[c].calls) : inflight[c].calls[i].fn \in ReadMethods
            /\ \A i \in 1..Len(inflight[c].calls) :
                  inflight[c].calls[i].fn \in WriteMethods =>
                      inflight[c].req.method \in {"POST", "PUT", "DELETE"}

\* a step of a GET request, from its arrival to its response, leaves the
\* stored records as they are
C24_GetStep ==
    \A c \in Conns :
        /\ inflight'[c] # inflight[c]
        /\ inflight[c].req.method = "GET" \/ inflight[c].pc = "idle"
        /\ inflight'[c].req.method = "GET"
        => /\ db'.parents = db.parents
           /\ db'.children = db.children

C24_GetIsReadOnly == [](C24_GetCallsReads) /\ [][C24_GetStep]_vars

\* a GET / has listed two stored parents, the second created by an
\* earlier POST, and both are still stored
C24_Witness ==
    \E c \in Conns :
        /\ Done(c) /\ inflight[c].req.method = "GET"
        /\ inflight[c].calls = <<Invoke("find", <<EmptyObject>>)>>
        /\ inflight[c].out.ok /\ Len(inflight[c].out.value.v) = 2
        /\ Cardinality(db.parents) = 2

====
